---- MODULE Spec2Model ----
(***************************************************************************)
(* Model of the CloudFormation custom resource provider base class          *)
(* (ResourceProvider) : one handler instance, reused for successive         *)
(* requests.  A cycle is handle() = setRequest ; execute ; sendResponse.    *)
(* The operation a subclass plugs in (create / update / delete) is a        *)
(* sequence of calls on the accessors of the provider, ended by a return    *)
(* or by a throw of an arbitrary JavaScript value.                          *)
(*                                                                          *)
(* JavaScript objects are functions from their own keys to values : a key   *)
(* that is absent from the object is absent from the DOMAIN.  Strings are   *)
(* TLA+ strings, with their true lengths.                                   *)
(***************************************************************************)
EXTENDS Integers, Sequences, FiniteSets, TLC

VARIABLES
    provider,       \* constructor.name of the handler instance
    request,        \* this.request
    context,        \* this.context
    asynchronous,   \* this.asynchronous
    response,       \* this.response
    pc,             \* position of the control inside handle()
    opSteps,        \* accessor calls made so far by the running operation
    pending,        \* exception propagating out of the catch block, if any
    outcome,        \* how handle() ended : what it returned or raised
    calls,          \* operations invoked in this cycle, in order
    thrown,         \* what the operation threw, and the status it threw at
    warned,         \* console.warn emitted by isValidCfnResponse
    sent,           \* arguments of the send() calls of this cycle
    checks,         \* checks and hooks run by execute() in this cycle, in order
    stale,          \* the response the previous cycle left, as setRequest found it
    event,          \* the SNS event given to the envelope
    envContext,     \* the context given to the envelope
    envPc,          \* position of the control inside SnsEnvelope.handle()
    recordIndex,    \* the record the loop of the envelope is at
    responses,      \* the array the envelope collects the responses in
    envOutcome,     \* how SnsEnvelope.handle() ended
    deliveries,     \* request ids of the send() calls made during the batch
    callbacks       \* callbacks the operations left pending on the event loop

\* the state of the envelope and of the event loop
env == << event, envContext, envPc, recordIndex, responses, envOutcome, deliveries,
          callbacks >>

vars == << provider, request, context, asynchronous, response, pc, opSteps,
           pending, outcome, calls, thrown, warned, sent,
                    checks, stale, env >>

-----------------------------------------------------------------------------
\* Bounds of the model.

\* accessor calls one operation may make before it returns or throws
MaxOpSteps == 2

\* number of distinct request identities (stack id, request id, logical id)
MaxIds == 2

-----------------------------------------------------------------------------
\* Program constants.

SUCCESS == "SUCCESS"

FAILED == "FAILED"

\* the reason is cut after this many characters
ReasonLimit == 200

Ellipsis == "..."

CouldNotCreate == "could-not-create"

-----------------------------------------------------------------------------
\* JavaScript values.

\* the value of an unset field (request?, response?, context?)
Undefined == [undefined |-> TRUE]

\* obj[key] = val, creating the key when the object does not own it
SetKey(obj, key, val) ==
    [k \in (DOMAIN obj) \cup {key} |-> IF k = key THEN val ELSE obj[k]]

\* key in obj
HasKey(obj, key) == key \in DOMAIN obj

\* JavaScript truthiness of an optional string field : absent (undefined)
\* and "" are falsy
Truthy(obj, key) == HasKey(obj, key) /\ obj[key] # ""

RECURSIVE Rep(_, _)
\* the string c repeated n times
Rep(c, n) ==
    IF n = 0 THEN ""
    ELSE LET half == Rep(c, n \div 2)
         IN  half \o half \o (IF n % 2 = 1 THEN c ELSE "")

\* String.prototype.indexOf : first position (from 1) of pat in s, 0 if none
IndexOf(s, pat) ==
    LET hits == { i \in 1..(Len(s) - Len(pat) + 1) :
                     SubSeq(s, i, i + Len(pat) - 1) = pat }
    IN  IF hits = {} THEN 0
        ELSE CHOOSE i \in hits : \A j \in hits : i <= j

\* String.prototype.replace with a string pattern : the first occurrence only
Replace(s, pat, rep) ==
    LET i == IndexOf(s, pat)
    IN  IF i = 0 THEN s
        ELSE SubSeq(s, 1, i - 1) \o rep \o SubSeq(s, i + Len(pat), Len(s))

\* String(object) for a plain object
ObjectToString == "[object Object]"

-----------------------------------------------------------------------------
\* The provider classes : the base class and one subclass that overrides the
\* schema and the three operations.

BaseClass == "ResourceProvider"

SubClass == "SecretProvider"

ProviderClasses == { BaseClass, SubClass }

\* resourcePropertiesSchema : { type: "object" } in the base class, with a
\* required property in the subclass
resourcePropertiesSchema(cls) ==
    IF cls = BaseClass
    THEN [type |-> "object", required |-> {}]
    ELSE [type |-> "object", required |-> {"Name"}]

\* the schema of a proper CloudFormation response
cfnResponseSchema ==
    [type |-> "object",
     required |-> {"Status", "Reason", "RequestId", "StackId", "LogicalResourceId"}]

\* validate(obj, schema) : the contract of the JSON schema validator for the
\* schemas above (an object owning every required property)
validate(obj, schema) == schema.required \subseteq DOMAIN obj

customCfnResourceName(cls) == "Custom::" \o Replace(cls, "Provider", "")

-----------------------------------------------------------------------------
\* The requests CloudFormation sends.

Kinds == { "Create", "Update", "Delete", "Replace" }

\* enum RequestType : the legal kinds
RequestType == { "Create", "Update", "Delete" }

ResourceTypes == { "Custom::Resource", "Custom::Secret" }

PropertyBags == { [Name |-> "param"], [Property |-> "Value"] }

StackIdOf(i) == "stack/" \o ToString(i)

RequestIdOf(i) == "req-" \o ToString(i)

LogicalIdOf(i) == "Res" \o ToString(i)

\* a Create request carries no PhysicalResourceId, every other one does
MkRequest(i, kind, type, props) ==
    LET common == [RequestType |-> kind,
                   ResponseURL |-> "https://response.url",
                   StackId |-> StackIdOf(i),
                   RequestId |-> RequestIdOf(i),
                   ResourceType |-> type,
                   LogicalResourceId |-> LogicalIdOf(i),
                   ResourceProperties |-> props]
    IN  IF kind = "Create" THEN common
        ELSE SetKey(common, "PhysicalResourceId", "phys-" \o ToString(i))

Requests ==
    { MkRequest(i, kind, type, props) :
        i \in 1..MaxIds, kind \in Kinds, type \in ResourceTypes,
        props \in PropertyBags }

Contexts == { "ctx" }

-----------------------------------------------------------------------------
\* Accessors of the provider.

\* get requestType : the enum member named by request.RequestType, or
\* undefined
requestType == IF request.RequestType \in RequestType
               THEN request.RequestType ELSE "undefined"

resourceType == request.ResourceType

properties == request.ResourceProperties

\* the check of the resource type left out
isSupportedResourceType_Unchecked == TRUE

isSupportedResourceType == resourceType = customCfnResourceName(provider)

\* fail(reason) applied to a response
fail(resp, reason) ==
    LET r == [resp EXCEPT !.Status = FAILED]
    IN  IF reason # "" THEN SetKey(r, "Reason", reason) ELSE r

\* success() applied to a response
success(resp) == [resp EXCEPT !.Status = SUCCESS]

\* success(reason) applied to a response
successWith(resp, reason) == SetKey([resp EXCEPT !.Status = SUCCESS], "Reason", reason)

\* Data made anew at each write
setAttribute_Replaces(resp, name, value) ==
    SetKey(resp, "Data", SetKey(<< >>, name, value))

\* setAttribute(name, value) applied to a response : Data is created on the
\* first write
setAttribute(resp, name, value) ==
    LET data == IF HasKey(resp, "Data") THEN resp.Data ELSE << >>
    IN  SetKey(resp, "Data", SetKey(data, name, value))

\* getAttribute(name) on a response : undefined without Data, or without
\* that attribute
getAttribute(resp, name) ==
    IF ~HasKey(resp, "Data") THEN Undefined
    ELSE IF HasKey(resp.Data, name) THEN resp.Data[name] ELSE Undefined

\* the request id copied into the stack id
SeedResponse_Swapped(req) ==
    [Status |-> SUCCESS,
     StackId |-> req.RequestId,
     RequestId |-> req.RequestId,
     LogicalResourceId |-> req.LogicalResourceId,
     PhysicalResourceId |->
        IF HasKey(req, "PhysicalResourceId") THEN req.PhysicalResourceId ELSE ""]

\* the physical id of the request left out of the seed
SeedResponse_NoPhysicalId(req) ==
    [Status |-> SUCCESS,
     StackId |-> req.StackId,
     RequestId |-> req.RequestId,
     LogicalResourceId |-> req.LogicalResourceId,
     PhysicalResourceId |-> ""]

\* the response setRequest builds
SeedResponse(req) ==
    [Status |-> SUCCESS,
     StackId |-> req.StackId,
     RequestId |-> req.RequestId,
     LogicalResourceId |-> req.LogicalResourceId,
     PhysicalResourceId |->
        IF HasKey(req, "PhysicalResourceId") THEN req.PhysicalResourceId ELSE ""]

-----------------------------------------------------------------------------
\* What an operation of the subclass may pass to the accessors, and throw.

LongReason == Rep("x", ReasonLimit + 1)

ExactReason == Rep("y", ReasonLimit)

\* reasons given to fail() ; "" is a falsy reason
FailReasons == { "", "boom", ExactReason, LongReason }

SuccessReasons == { "", "done" }

PhysicalIds == { "", "phys-new" }

AttributeNames == { "Arn", "Secret" }

AttributeValues == { "v1", "v2" }

\* a thrown JavaScript value : an Error with a message, a string, or null
Error(m) == [kind |-> "Error", message |-> m]

StringValue(s) == [kind |-> "string", message |-> s]

Null == [kind |-> "null", message |-> ""]

ThrownValues == { Error("boom"), Error(""), StringValue("oops"), StringValue(""), Null }

\* e.toString() is defined for every value but null and undefined
HasToString(e) == e.kind # "null"

\* Error.prototype.toString : name, or name ": " message ; a string is itself
ToStr(e) ==
    IF e.kind = "Error"
    THEN IF e.message = "" THEN "Error" ELSE "Error: " \o e.message
    ELSE e.message

\* the TypeError raised by null.toString()
TypeError == [kind |-> "TypeError", message |-> "Cannot read properties of null"]

-----------------------------------------------------------------------------
\* handle() : setRequest

Init ==
    /\ provider \in ProviderClasses
    /\ request = Undefined
    /\ context = Undefined
    /\ asynchronous = FALSE
    /\ response = Undefined
    /\ pc = "idle"
    /\ opSteps = 0
    /\ pending = Undefined
    /\ outcome = Undefined
    /\ calls = << >>
    /\ thrown = Undefined
    /\ warned = FALSE
    /\ sent = << >>
    /\ checks = << >>
    /\ stale = Undefined
    /\ event = Undefined
    /\ envContext = Undefined
    /\ envPc = "none"
    /\ recordIndex = 0
    /\ responses = << >>
    /\ envOutcome = Undefined
    /\ deliveries = << >>
    /\ callbacks = {}

\* the seed assigned over the response of the previous cycle, whose other
\* keys stay
setRequest_KeepsOld(req, ctx) ==
    /\ request' = req
    /\ context' = ctx
    /\ asynchronous' = FALSE
    /\ response' =
         IF response = Undefined THEN SeedResponse(req)
         ELSE [k \in DOMAIN response \cup DOMAIN SeedResponse(req) |->
                  IF k \in DOMAIN SeedResponse(req)
                  THEN SeedResponse(req)[k] ELSE response[k]]

\* setRequest(request, context)
setRequest(req, ctx) ==
    /\ request' = req
    /\ context' = ctx
    /\ asynchronous' = FALSE
    /\ response' = SeedResponse(req)

\* handle(request, context) is entered : the handler is idle, or has ended
\* its previous cycle
Handle(req, ctx) ==
    /\ pc \in { "idle", "returned", "raised" }
    /\ setRequest(req, ctx)
    /\ pc' = "execute"
    /\ opSteps' = 0
    /\ pending' = Undefined
    /\ outcome' = Undefined
    /\ calls' = << >>
    /\ thrown' = Undefined
    /\ warned' = FALSE
    /\ sent' = << >>
    /\ checks' = << >>
    /\ stale' = response
    /\ UNCHANGED provider

\* handle() called by the Lambda entry point
HandleRequest(req, ctx) ==
    /\ envPc = "none"
    /\ Handle(req, ctx)
    /\ UNCHANGED env

-----------------------------------------------------------------------------
\* execute() : the two checks, the dispatch, the delete bypass

UnsupportedReason ==
    "ResourceType " \o resourceType \o " not supported by provider "
        \o customCfnResourceName(provider)

InvalidReason == "invalid resource properties: " \o ObjectToString

\* isSupportedRequest() : its result
isSupportedRequest == isSupportedResourceType

\* no validation of the properties
isValidRequest_Unchecked == TRUE

\* isValidRequest() : its result ; convertPropertyTypes() is the empty hook
isValidRequest == validate(properties, resourcePropertiesSchema(provider))

\* the two checks in the other order
AfterChecks_ValidFirst(resp) ==
    IF ~isValidRequest THEN fail(resp, InvalidReason)
    ELSE IF ~isSupportedRequest THEN fail(resp, UnsupportedReason)
    ELSE resp

\* the response after isSupportedRequest() && isValidRequest()
AfterChecks(resp) ==
    IF ~isSupportedRequest THEN fail(resp, UnsupportedReason)
    ELSE IF ~isValidRequest THEN fail(resp, InvalidReason)
    ELSE resp

\* delete selected by the Delete request type only
SelectedOperation_DeleteByName ==
    IF requestType = "Create" THEN "create"
    ELSE IF requestType = "Delete" THEN "delete"
    ELSE "update"

\* the operation the request type selects
SelectedOperation ==
    IF requestType = "Create" THEN "create"
    ELSE IF requestType = "Update" THEN "update"
    ELSE "delete"

\* no else branch
DeleteBypass_Absent(resp) == resp

\* the else branch taken on invalid properties only
DeleteBypass_InvalidOnly(resp) ==
    IF isSupportedRequest /\ HasKey(request, "RequestType") /\ requestType = "Delete"
    THEN success(resp)
    ELSE resp

\* the else branch of execute() : a failed check on a Delete request
DeleteBypass(resp) ==
    IF HasKey(request, "RequestType") /\ requestType = "Delete"
    THEN success(resp)
    ELSE resp

\* what isSupportedRequest() && isValidRequest() runs : the second operand,
\* with its hook, only when the first holds
ChecksRun ==
    IF ~isSupportedRequest THEN << "isSupportedRequest" >>
    ELSE << "isSupportedRequest", "convertPropertyTypes", "validate" >>

\* a hook that adds the default of an optional property
convertPropertyTypes_AddsDefault(req) ==
    [req EXCEPT !.ResourceProperties = SetKey(@, "Description", "")]

\* convertPropertyTypes() : the hook of the base class is empty, and leaves
\* the request as it is
convertPropertyTypes(req) == req

\* execute() is entered : the condition of its if statement is evaluated
Execute ==
    /\ pc = "execute"
    /\ request' = IF isSupportedRequest THEN convertPropertyTypes(request)
                  ELSE request
    /\ response' = AfterChecks(response)
    /\ checks' = ChecksRun
    /\ stale' = Undefined
    /\ pc' = "checked"
    /\ UNCHANGED << provider, context, asynchronous, opSteps, pending,
                    outcome, calls, thrown, warned, sent, env >>

\* the branch of the if statement : the selected operation is called, or the
\* else branch runs
Dispatch ==
    /\ pc = "checked"
    /\ IF isSupportedRequest /\ isValidRequest
       THEN /\ calls' = Append(calls, SelectedOperation)
            /\ response' = response
            /\ pc' = "op"
       ELSE /\ calls' = calls
            /\ response' = DeleteBypass(response)
            /\ pc' = "finally"
    /\ UNCHANGED << provider, request, context, asynchronous, opSteps, pending,
                    outcome, thrown, warned, sent,
                    checks, stale, env >>

-----------------------------------------------------------------------------
\* The operations of the base class.

\* the message, were it to name the resource type of the handler
NotImplemented_ByResourceName(op) ==
    op \o " not implemented by " \o customCfnResourceName(provider)

NotImplemented(op) == op \o " not implemented by " \o provider

\* create() and update() of the base class fail, delete() succeeds
DefaultOperation ==
    /\ pc = "op"
    /\ provider = BaseClass
    /\ response' =
         IF calls[Len(calls)] = "delete"
         THEN successWith(response, NotImplemented("delete"))
         ELSE fail(response, NotImplemented(calls[Len(calls)]))
    /\ pc' = "check"
    /\ UNCHANGED << provider, request, context, asynchronous, opSteps, pending,
                    outcome, calls, thrown, warned, sent,
                    checks, stale, env >>

-----------------------------------------------------------------------------
\* The operations of a subclass : accessor calls, then a return or a throw.

InOperation ==
    /\ pc = "op"
    /\ provider = SubClass

OpCall(resp) ==
    /\ InOperation
    /\ opSteps < MaxOpSteps
    /\ opSteps' = opSteps + 1
    /\ response' = resp
    /\ UNCHANGED << provider, request, context, asynchronous, pc, pending,
                    outcome, calls, thrown, warned, sent,
                    checks, stale, env >>

OpFail(reason) == OpCall(fail(response, reason))

OpSuccess == OpCall(success(response))

OpSuccessWith(reason) == OpCall(successWith(response, reason))

\* set physicalResourceId
OpSetPhysicalResourceId(id) == OpCall([response EXCEPT !.PhysicalResourceId = id])

OpSetAttribute(name, value) == OpCall(setAttribute(response, name, value))

\* set noEcho
OpSetNoEcho(value) == OpCall(SetKey(response, "NoEcho", value))

\* this.asynchronous = true : the operation takes over the delivery
OpSetAsynchronous ==
    /\ InOperation
    /\ opSteps < MaxOpSteps
    /\ opSteps' = opSteps + 1
    /\ asynchronous' = TRUE
    /\ UNCHANGED << provider, request, context, response, pc, pending,
                    outcome, calls, thrown, warned, sent,
                    checks, stale, env >>

OpReturn ==
    /\ InOperation
    /\ pc' = "check"
    /\ UNCHANGED << provider, request, context, asynchronous, response, opSteps,
                    pending, outcome, calls, thrown, warned, sent,
                    checks, stale, env >>

\* the catch block failing the response whatever its status
Catch_Overwrites(resp, e) ==
    IF HasToString(e) THEN fail(resp, ToStr(e)) ELSE resp

\* the catch block of execute() : the response it leaves
Catch(resp, e) ==
    IF resp.Status = SUCCESS /\ HasToString(e) THEN fail(resp, ToStr(e)) ELSE resp

\* the exception that leaves the catch block : e.toString() of null raises
CatchRaises(resp, e) ==
    IF resp.Status = SUCCESS /\ ~HasToString(e) THEN TypeError ELSE Undefined

\* the operation throws e, and the catch block of execute() runs
OpThrow(e) ==
    /\ InOperation
    /\ thrown' = [value |-> e, status |-> response.Status]
    /\ response' = Catch(response, e)
    /\ pending' = CatchRaises(response, e)
    /\ pc' = "finally"
    /\ UNCHANGED << provider, request, context, asynchronous, opSteps, outcome,
                    calls, warned, sent,
                    checks, stale, env >>

-----------------------------------------------------------------------------
\* execute() : the check of the response, and the finally block

isValidCfnResponse(resp) == validate(resp, cfnResponseSchema)

\* an invalid response failed by the check
CheckResponse_FailsInvalid ==
    /\ pc = "check"
    /\ warned' = ~isValidCfnResponse(response)
    /\ response' = IF isValidCfnResponse(response) THEN response
                   ELSE fail(response, "invalid CloudFormation response")
    /\ pc' = "finally"
    /\ UNCHANGED << provider, request, context, asynchronous, opSteps,
                    pending, outcome, calls, thrown, sent,
                    checks, stale, env >>

\* this.isValidCfnResponse() after the operation : a warning and no more
CheckResponse ==
    /\ pc = "check"
    /\ warned' = ~isValidCfnResponse(response)
    /\ pc' = "finally"
    /\ UNCHANGED << provider, request, context, asynchronous, response, opSteps,
                    pending, outcome, calls, thrown, sent,
                    checks, stale, env >>

\* no sentinel
Sentinel_Absent(resp) == resp

\* the sentinel written at the end of the try block, not in a finally block
Sentinel_NormalReturnOnly(resp) ==
    IF thrown = Undefined /\ ~Truthy(resp, "PhysicalResourceId")
          /\ resp.Status = FAILED /\ requestType = "Create"
    THEN [resp EXCEPT !.PhysicalResourceId = CouldNotCreate]
    ELSE resp

\* the sentinel written whatever the request type
Sentinel_AnyKind(resp) ==
    IF ~Truthy(resp, "PhysicalResourceId") /\ resp.Status = FAILED
    THEN [resp EXCEPT !.PhysicalResourceId = CouldNotCreate]
    ELSE resp

\* the finally block : the sentinel of a failed Create
Sentinel(resp) ==
    IF ~Truthy(resp, "PhysicalResourceId") /\ resp.Status = FAILED
          /\ requestType = "Create"
    THEN [resp EXCEPT !.PhysicalResourceId = CouldNotCreate]
    ELSE resp

\* the finally block runs ; an exception that left the catch block then
\* leaves execute() and handle()
Finally ==
    /\ pc = "finally"
    /\ response' = Sentinel(response)
    /\ IF pending # Undefined
       THEN /\ pc' = "raised"
            /\ outcome' = [raised |-> pending]
       ELSE /\ pc' = "send"
            /\ outcome' = outcome
    /\ UNCHANGED << provider, request, context, asynchronous, opSteps, pending,
                    calls, thrown, warned, sent,
                    checks, stale, env >>

-----------------------------------------------------------------------------
\* handle() : sendResponse and the return

\* the reason cut so that it fits the limit with its marker
truncateResponse_Within(resp) ==
    IF ~Truthy(resp, "Reason") THEN resp
    ELSE IF Len(resp.Reason) > ReasonLimit
         THEN [resp EXCEPT !.Reason =
                   SubSeq(resp.Reason, 1, ReasonLimit - Len(Ellipsis)) \o Ellipsis]
         ELSE resp

\* the marker written over the last characters of a long reason
truncateResponse_MarkerOverTail(resp) ==
    IF ~Truthy(resp, "Reason") THEN resp
    ELSE IF Len(resp.Reason) > ReasonLimit
         THEN [resp EXCEPT !.Reason =
                   SubSeq(resp.Reason, 1, Len(resp.Reason) - Len(Ellipsis)) \o Ellipsis]
         ELSE resp

\* truncateResponse() applied to a response
truncateResponse(resp) ==
    IF ~Truthy(resp, "Reason") THEN resp
    ELSE IF Len(resp.Reason) > ReasonLimit
         THEN [resp EXCEPT !.Reason = SubSeq(resp.Reason, 1, ReasonLimit) \o Ellipsis]
         ELSE resp

\* send() called without the Data
SendArguments_WithoutData(resp) ==
    [request |-> request,
     context |-> context,
     status |-> resp.Status,
     physicalResourceId |-> resp.PhysicalResourceId,
     response |-> resp]

\* the arguments of send() ; an undefined argument is an absent key
SendArguments(resp) ==
    LET args == [request |-> request,
                 context |-> context,
                 status |-> resp.Status,
                 physicalResourceId |-> resp.PhysicalResourceId,
                 response |-> resp]
        withData == IF HasKey(resp, "Data")
                    THEN SetKey(args, "data", resp.Data) ELSE args
    IN  IF HasKey(resp, "NoEcho")
        THEN SetKey(withData, "noEcho", resp.NoEcho) ELSE withData

\* sendResponse() ; the PUT that send() starts ends well or in a fault, which
\* send() reports to the log and to nobody else
sendResponse(fault) ==
    /\ pc = "send"
    /\ ~asynchronous
    /\ response' = truncateResponse(response)
    /\ sent' = Append(sent, SetKey(SendArguments(response'), "fault", fault))
    /\ deliveries' = IF envPc = "call"
                     THEN Append(deliveries, request.RequestId) ELSE deliveries
    /\ pc' = "return"
    /\ UNCHANGED << provider, request, context, asynchronous, opSteps, pending,
                    outcome, calls, thrown, warned, checks, stale, event,
                    envContext, envPc, recordIndex, responses, envOutcome,
                    callbacks >>

\* return this.response
Return ==
    /\ \/ pc = "return"
       \/ pc = "send" /\ asynchronous
    /\ outcome' = [returned |-> response]
    /\ pc' = "returned"
    /\ UNCHANGED << provider, request, context, asynchronous, response, opSteps,
                    pending, calls, thrown, warned, sent,
                    checks, stale, env >>

-----------------------------------------------------------------------------

Next ==
    \/ \E req \in Requests, ctx \in Contexts : HandleRequest(req, ctx)
    \/ Execute
    \/ Dispatch
    \/ DefaultOperation
    \/ \E reason \in FailReasons : OpFail(reason)
    \/ OpSuccess
    \/ \E reason \in SuccessReasons : OpSuccessWith(reason)
    \/ \E id \in PhysicalIds : OpSetPhysicalResourceId(id)
    \/ \E name \in AttributeNames, value \in AttributeValues :
          OpSetAttribute(name, value)
    \/ \E value \in BOOLEAN : OpSetNoEcho(value)
    \/ OpSetAsynchronous
    \/ OpReturn
    \/ \E e \in ThrownValues : OpThrow(e)
    \/ CheckResponse
    \/ Finally
    \/ \E fault \in BOOLEAN : sendResponse(fault)
    \/ Return

Spec == Init /\ [][Next]_vars

-----------------------------------------------------------------------------
\* The SNS envelope : SnsEnvelope.handle unpacks the records of an SNS event
\* and gives each embedded request to the handle() of the provider it wraps.

\* records one event may carry
MaxRecords == 2

\* the order JSON.stringify writes the keys of a request in
KeyOrder ==
    << "RequestType", "ResponseURL", "StackId", "RequestId", "ResourceType",
       "LogicalResourceId", "PhysicalResourceId", "ResourceProperties",
       "Name", "Property" >>

\* the members of a JSON text of an object whose values are strings
StringifyFlat(obj) ==
    LET keys == SelectSeq(KeyOrder, LAMBDA k : k \in DOMAIN obj)
    IN  [i \in 1..Len(keys) |-> << keys[i], "string", obj[keys[i]] >>]

\* JSON.stringify(request) : the members in order, each a key, the type of
\* its value and the value, itself a text when it is an object
JSONstringify(obj) ==
    LET keys == SelectSeq(KeyOrder, LAMBDA k : k \in DOMAIN obj)
    IN  [i \in 1..Len(keys) |->
            IF keys[i] = "ResourceProperties"
            THEN << keys[i], "object", StringifyFlat(obj[keys[i]]) >>
            ELSE << keys[i], "string", obj[keys[i]] >>]

\* the value of member key in a JSON text
Member(text, key) == text[CHOOSE i \in 1..Len(text) : text[i][1] = key]

ParseFlat(text) ==
    [k \in { text[i][1] : i \in 1..Len(text) } |-> Member(text, k)[3]]

\* JSON.parse(text)
JSONparse(text) ==
    [k \in { text[i][1] : i \in 1..Len(text) } |->
        IF Member(text, k)[2] = "object"
        THEN ParseFlat(Member(text, k)[3])
        ELSE Member(text, k)[3]]

\* the requests carried by the records of the events
BatchRequests ==
    { MkRequest(1, "Create", "Custom::Secret", [Name |-> "param"]),
      MkRequest(2, "Update", "Custom::Resource", [Name |-> "param"]) }

\* an SNS record carrying a request
RecordOf(req) ==
    [EventSource |-> "aws:sns",
     Sns |-> [MessageId |-> "1234", Message |-> JSONstringify(req)]]

\* a record whose Sns has no Message, and a record with no Sns
NoMessageRecord == [EventSource |-> "aws:sns", Sns |-> [MessageId |-> "1234"]]

NoSnsRecord == [EventSource |-> "aws:sns"]

RecordValues == { RecordOf(req) : req \in BatchRequests }
                    \cup { NoMessageRecord, NoSnsRecord }

\* the events : up to MaxRecords records, or no Records at all
Events ==
    { [Records |-> rs] : rs \in UNION { [1..n -> RecordValues] : n \in 0..MaxRecords } }
        \cup { [Type |-> "Notification"] }

\* a schema that asks for Records and says nothing of its items
SnsSchemaValid_RecordsOnly(ev) == HasKey(ev, "Records")

\* SNS_SCHEMA : Records required, each item with an Sns that has a Message
SnsSchemaValid(ev) ==
    /\ HasKey(ev, "Records")
    /\ \A i \in 1..Len(ev.Records) :
          /\ HasKey(ev.Records[i], "Sns")
          /\ HasKey(ev.Records[i].Sns, "Message")

InvalidSnsReason == "invalid CloudFormation Request received: " \o ObjectToString

\* the Error SnsEnvelope.handle throws
SnsSchemaError ==
    [kind |-> "Error",
     message |-> "The provided event is not compliant with the SNS schema."]

\* the TypeError raised by a write to a field of the undefined this.response
UndefinedResponseError ==
    [kind |-> "TypeError", message |-> "Cannot set properties of undefined"]

InitBatch ==
    /\ provider \in ProviderClasses
    /\ request = Undefined
    /\ context = Undefined
    /\ asynchronous = FALSE
    /\ response = Undefined
    /\ pc = "idle"
    /\ opSteps = 0
    /\ pending = Undefined
    /\ outcome = Undefined
    /\ calls = << >>
    /\ thrown = Undefined
    /\ warned = FALSE
    /\ sent = << >>
    /\ checks = << >>
    /\ stale = Undefined
    /\ event = Undefined
    /\ envContext = Undefined
    /\ envPc = "idle"
    /\ recordIndex = 0
    /\ responses = << >>
    /\ envOutcome = Undefined
    /\ deliveries = << >>
    /\ callbacks = {}

\* the failure recorded on the provider and not thrown
SnsInvalid_NotThrown ==
    /\ response' = IF response = Undefined THEN response
                   ELSE fail(response, InvalidSnsReason)
    /\ envOutcome' = [returned |-> << >>]
    /\ envPc' = "returned"

\* is_valid_sns_request(event) on an event that fails the schema : fail() on
\* the provider, which raises when the provider has no response yet, then
\* the throw of handle
SnsInvalid ==
    /\ IF response = Undefined
       THEN /\ response' = response
            /\ envOutcome' = [raised |-> UndefinedResponseError]
       ELSE /\ response' = fail(response, InvalidSnsReason)
            /\ envOutcome' = [raised |-> SnsSchemaError]
    /\ envPc' = "raised"

\* SnsEnvelope.handle(event, context) is entered : the event is validated,
\* and the error is thrown when it is not valid
EnvHandle(ev, ctx) ==
    /\ envPc \in { "idle", "returned", "raised" }
    /\ pc \in { "idle", "returned", "raised" }
    /\ event' = ev
    /\ envContext' = ctx
    /\ responses' = << >>
    /\ deliveries' = << >>
    /\ recordIndex' = 1
    /\ IF SnsSchemaValid(ev)
       THEN /\ envPc' = "loop"
            /\ envOutcome' = Undefined
            /\ response' = response
       ELSE SnsInvalid
    /\ UNCHANGED << provider, request, context, asynchronous, pc, opSteps,
                    pending, outcome, calls, thrown, warned, sent, checks, stale,
                    callbacks >>

\* what record.Sns.Message and JSON.parse raise on a record that has no
\* Sns, or whose Sns has no Message
RecordError(record) ==
    IF ~HasKey(record, "Sns")
    THEN [kind |-> "TypeError", message |-> "Cannot read properties of undefined"]
    ELSE [kind |-> "SyntaxError", message |-> "\"undefined\" is not valid JSON"]

\* the body of the loop : the message of the record is parsed and given to
\* the handle() of the provider
HandleRecord ==
    /\ envPc = "loop"
    /\ recordIndex <= Len(event.Records)
    /\ IF /\ HasKey(event.Records[recordIndex], "Sns")
          /\ HasKey(event.Records[recordIndex].Sns, "Message")
       THEN /\ Handle(JSONparse(event.Records[recordIndex].Sns.Message), envContext)
            /\ envPc' = "call"
            /\ envOutcome' = envOutcome
       ELSE /\ envPc' = "raised"
            /\ envOutcome' = [raised |-> RecordError(event.Records[recordIndex])]
            /\ UNCHANGED << provider, request, context, asynchronous, response,
                            pc, opSteps, pending, outcome, calls, thrown,
                            warned, sent, checks, stale >>
    /\ UNCHANGED << event, envContext, recordIndex, responses, deliveries,
                    callbacks >>

\* responses.push(...) of what handle() returned
EnvPush ==
    /\ envPc = "call"
    /\ pc = "returned"
    /\ responses' = Append(responses, outcome.returned)
    /\ recordIndex' = recordIndex + 1
    /\ envPc' = "loop"
    /\ UNCHANGED << provider, request, context, asynchronous, response, pc,
                    opSteps, pending, outcome, calls, thrown, warned, sent,
                    checks, stale, event, envContext, envOutcome, deliveries,
                    callbacks >>

\* an exception that leaves handle() leaves the loop and SnsEnvelope.handle
EnvRaise ==
    /\ envPc = "call"
    /\ pc = "raised"
    /\ envOutcome' = [raised |-> outcome.raised]
    /\ envPc' = "raised"
    /\ UNCHANGED << provider, request, context, asynchronous, response, pc,
                    opSteps, pending, outcome, calls, thrown, warned, sent,
                    checks, stale, event, envContext, recordIndex, responses,
                    deliveries, callbacks >>

\* return responses
EnvReturn ==
    /\ envPc = "loop"
    /\ recordIndex > Len(event.Records)
    /\ envOutcome' = [returned |-> responses]
    /\ envPc' = "returned"
    /\ UNCHANGED << provider, request, context, asynchronous, response, pc,
                    opSteps, pending, outcome, calls, thrown, warned, sent,
                    checks, stale, event, envContext, recordIndex, responses,
                    deliveries, callbacks >>

\* what the operations of the subclass do in a batch
BatchFailReasons == { "boom" }

BatchPhysicalIds == { "phys-new" }

BatchThrownValues == { Error("boom"), Null }

NextBatch ==
    \/ \E ev \in Events, ctx \in Contexts : EnvHandle(ev, ctx)
    \/ HandleRecord
    \/ EnvPush
    \/ EnvRaise
    \/ EnvReturn
    \/ Execute
    \/ Dispatch
    \/ DefaultOperation
    \/ \E reason \in BatchFailReasons : OpFail(reason)
    \/ \E id \in BatchPhysicalIds : OpSetPhysicalResourceId(id)
    \/ OpSetAsynchronous
    \/ OpReturn
    \/ \E e \in BatchThrownValues : OpThrow(e)
    \/ CheckResponse
    \/ Finally
    \/ \E fault \in BOOLEAN : sendResponse(fault)
    \/ Return

SpecBatch == InitBatch /\ [][NextBatch]_vars

-----------------------------------------------------------------------------
\* sendResponse() called again on a response : an operation that set the
\* asynchronous flag delivers by itself, with sendResponse(), as often as it
\* wants, and each call truncates before it sends.

\* calls of sendResponse() on one response
MaxDeliveries == 3

\* the lengths of the reasons go this far below and above the limit
LengthSlack == 5

\* reasons about as long as the limit, of letters or of the character of
\* the marker, and the empty reason
TruncationReasons ==
    { Rep(c, n) : c \in { "x", "." },
                  n \in (ReasonLimit - LengthSlack)..(ReasonLimit + LengthSlack) }
        \cup { "" }

TruncationRequest == MkRequest(1, "Update", "Custom::Secret", [Name |-> "param"])

\* the responses an operation may have built, with and without a reason
TruncationResponses ==
    { [SeedResponse(TruncationRequest) EXCEPT !.Status = st] : st \in { SUCCESS, FAILED } }
        \cup { SetKey([SeedResponse(TruncationRequest) EXCEPT !.Status = st], "Reason", r) :
                 st \in { SUCCESS, FAILED }, r \in TruncationReasons }

InitTruncate ==
    /\ provider = SubClass
    /\ request = TruncationRequest
    /\ context = "ctx"
    /\ asynchronous = TRUE
    /\ response \in TruncationResponses
    /\ pc = "deliver"
    /\ opSteps = 0
    /\ pending = Undefined
    /\ outcome = Undefined
    /\ calls = << "update" >>
    /\ thrown = Undefined
    /\ warned = FALSE
    /\ sent = << >>
    /\ checks = << >>
    /\ stale = Undefined
    /\ event = Undefined
    /\ envContext = Undefined
    /\ envPc = "none"
    /\ recordIndex = 0
    /\ responses = << >>
    /\ envOutcome = Undefined
    /\ deliveries = << >>
    /\ callbacks = {}

\* this.sendResponse() called by the operation
Resend ==
    /\ pc = "deliver"
    /\ Len(sent) < MaxDeliveries
    /\ response' = truncateResponse(response)
    /\ sent' = Append(sent, SetKey(SendArguments(response'), "fault", FALSE))
    /\ UNCHANGED << provider, request, context, asynchronous, pc, opSteps,
                    pending, outcome, calls, thrown, warned, checks, stale, env >>

NextTruncate == Resend

SpecTruncate == InitTruncate /\ [][NextTruncate]_vars

-----------------------------------------------------------------------------
\* The properties of the request : the lookups get and getOld, and the
\* heuristic conversion a hook of a subclass may call.  A JavaScript value is
\* a record of its kind and its content : a primitive string, a String
\* object, a boolean, a number, an array or an object.

\* nesting of arrays and objects in a property value
MaxDepth == 2

Str(s) == [kind |-> "string", v |-> s]

StrObj(s) == [kind |-> "String", v |-> s]

Bool(b) == [kind |-> "boolean", v |-> b]

Num(n) == [kind |-> "number", v |-> n]

Arr(items) == [kind |-> "array", v |-> items]

Obj(members) == [kind |-> "object", v |-> members]

\* the texts of the leaves : booleans, numbers, the empty text and others
LeafStrings == { "true", "false", "42", "007", "", "abc", "4x" }

\* NaN, among the natural numbers the digits can denote
NaN == -1

Digits == "0123456789"

IsDigit(c) == \E i \in 1..Len(Digits) : SubSeq(Digits, i, i) = c

DigitValue(c) == (CHOOSE i \in 1..Len(Digits) : SubSeq(Digits, i, i) = c) - 1

RECURSIVE DecimalValue(_)
DecimalValue(s) ==
    IF Len(s) = 0 THEN 0
    ELSE 10 * DecimalValue(SubSeq(s, 1, Len(s) - 1)) + DigitValue(SubSeq(s, Len(s), Len(s)))

\* Number(s) for a text of decimal digits, the empty text, which is 0, and a
\* text with a character that no number has
Number(s) ==
    IF \A i \in 1..Len(s) : IsDigit(SubSeq(s, i, i)) THEN DecimalValue(s) ELSE NaN

\* heuristicConvertPropertyTypes(properties) : the first branch is taken by
\* String objects only, a primitive string being no instance of String, of
\* Array or of Object
RECURSIVE heuristicConvertPropertyTypes(_)
heuristicConvertPropertyTypes(p) ==
    IF p.kind = "String"
    THEN IF p.v = "true" THEN Bool(TRUE)
         ELSE IF p.v = "false" THEN Bool(FALSE)
         ELSE IF Number(p.v) # NaN THEN Num(Number(p.v))
         ELSE p
    ELSE IF p.kind = "array"
    THEN Arr([i \in DOMAIN p.v |-> heuristicConvertPropertyTypes(p.v[i])])
    ELSE IF p.kind = "object"
    THEN Obj([k \in DOMAIN p.v |-> heuristicConvertPropertyTypes(p.v[k])])
    ELSE p

\* the property values : leaves, and arrays and objects of values, nested up
\* to a depth
RECURSIVE PropertyValues(_)
PropertyValues(depth) ==
    IF depth = 0
    THEN { Str(s) : s \in LeafStrings } \cup { StrObj(s) : s \in { "true", "42", "abc" } }
    ELSE PropertyValues(depth - 1)
            \cup { Arr(<< x >>) : x \in PropertyValues(depth - 1) }
            \cup { Obj([Inner |-> x]) : x \in PropertyValues(depth - 1) }

OldPropertyBags == { [Length |-> Str("7")], [Other |-> Str("old")] }

\* Update requests with such properties, with previous properties or none
PropertyRequests ==
    LET base == { MkRequest(1, "Update", "Custom::Secret", [Length |-> x]) :
                     x \in PropertyValues(MaxDepth) }
    IN  base \cup { SetKey(r, "OldResourceProperties", old) :
                      r \in base, old \in OldPropertyBags }

PropertyNames == { "Length", "Other" }

DefaultValues == { Str("dflt") }

\* get oldProperties
oldProperties(req) ==
    IF HasKey(req, "OldResourceProperties") THEN req.OldResourceProperties
    ELSE Undefined

\* a lookup that falls back on the current properties
getOld_FallsBack(req, name, defaultValue) ==
    IF oldProperties(req) = Undefined
    THEN IF HasKey(req.ResourceProperties, name)
         THEN req.ResourceProperties[name] ELSE defaultValue
    ELSE IF HasKey(oldProperties(req), name) THEN oldProperties(req)[name]
    ELSE defaultValue

\* get(name, defaultValue)
get(req, name, defaultValue) ==
    IF HasKey(req.ResourceProperties, name) THEN req.ResourceProperties[name]
    ELSE defaultValue

\* getOld(name, defaultValue)
getOld(req, name, defaultValue) ==
    IF oldProperties(req) = Undefined THEN defaultValue
    ELSE IF HasKey(oldProperties(req), name) THEN oldProperties(req)[name]
    ELSE defaultValue

InitProperties ==
    /\ provider = SubClass
    /\ request \in PropertyRequests
    /\ context = "ctx"
    /\ asynchronous = FALSE
    /\ response = SeedResponse(request)
    /\ pc = "hook"
    /\ opSteps = 0
    /\ pending = Undefined
    /\ outcome = Undefined
    /\ calls = << >>
    /\ thrown = Undefined
    /\ warned = FALSE
    /\ sent = << >>
    /\ checks = << >>
    /\ stale = Undefined
    /\ event = Undefined
    /\ envContext = Undefined
    /\ envPc = "none"
    /\ recordIndex = 0
    /\ responses = << >>
    /\ envOutcome = Undefined
    /\ deliveries = << >>
    /\ callbacks = {}

\* the hook of a subclass that calls
\* this.heuristicConvertPropertyTypes(this.properties)
HookCoerce ==
    /\ pc = "hook"
    /\ request' = [request EXCEPT !.ResourceProperties =
                       heuristicConvertPropertyTypes(Obj(@)).v]
    /\ checks' = << "convertPropertyTypes", "heuristicConvertPropertyTypes" >>
    /\ pc' = "lookup"
    /\ UNCHANGED << provider, context, asynchronous, response, opSteps, pending,
                    outcome, calls, thrown, warned, sent, stale, env >>

\* the empty hook of the base class
HookEmpty ==
    /\ pc = "hook"
    /\ request' = convertPropertyTypes(request)
    /\ checks' = << "convertPropertyTypes" >>
    /\ pc' = "lookup"
    /\ UNCHANGED << provider, context, asynchronous, response, opSteps, pending,
                    outcome, calls, thrown, warned, sent, stale, env >>

\* the operation looks a property up ; outcome is what the lookup returns
Lookup(op, name, defaultValue) ==
    /\ pc = "lookup"
    /\ outcome' = [op |-> op, name |-> name, defaultValue |-> defaultValue,
                   returned |-> IF op = "get" THEN get(request, name, defaultValue)
                                ELSE getOld(request, name, defaultValue)]
    /\ UNCHANGED << provider, request, context, asynchronous, response, pc,
                    opSteps, pending, calls, thrown, warned, sent, checks,
                    stale, env >>

NextProperties ==
    \/ HookCoerce
    \/ HookEmpty
    \/ \E op \in { "get", "getOld" }, name \in PropertyNames, d \in DefaultValues :
          Lookup(op, name, d)

SpecProperties == InitProperties /\ [][NextProperties]_vars

-----------------------------------------------------------------------------
\* Work an operation leaves pending : a promise whose callback writes the
\* response through the accessors, as the create() of the SecretProvider
\* starts.  handle() is synchronous, so a callback runs only when handle()
\* is not on the stack ; it writes this.response, the object of the cycle
\* started last.  responses holds the responses the caller has got back from
\* the earlier cycles.

\* responses of earlier cycles the caller keeps
MaxCycles == 1

\* the physical id a callback sets
LateId == "phys-late"

AsyncRequests ==
    { MkRequest(1, "Create", "Custom::Secret", [Name |-> "param"]),
      MkRequest(2, "Update", "Custom::Secret", [Name |-> "param"]) }

\* what a callback writes : the physical id, a failure
CallbackWrites == { "physicalResourceId", "fail" }

InitAsync ==
    /\ provider = SubClass
    /\ request = Undefined
    /\ context = Undefined
    /\ asynchronous = FALSE
    /\ response = Undefined
    /\ pc = "idle"
    /\ opSteps = 0
    /\ pending = Undefined
    /\ outcome = Undefined
    /\ calls = << >>
    /\ thrown = Undefined
    /\ warned = FALSE
    /\ sent = << >>
    /\ checks = << >>
    /\ stale = Undefined
    /\ event = Undefined
    /\ envContext = Undefined
    /\ envPc = "none"
    /\ recordIndex = 0
    /\ responses = << >>
    /\ envOutcome = Undefined
    /\ deliveries = << >>
    /\ callbacks = {}

\* handle() called again by a caller that keeps what the cycle before
\* returned
HandleAsync(req, ctx) ==
    /\ envPc = "none"
    /\ Len(responses) < MaxCycles
    /\ Handle(req, ctx)
    /\ responses' = IF pc = "returned" THEN Append(responses, outcome.returned)
                    ELSE responses
    /\ UNCHANGED << event, envContext, envPc, recordIndex, envOutcome,
                    deliveries, callbacks >>

\* the operation starts work and goes on without waiting for it
OpStartAsync(write) ==
    /\ InOperation
    /\ opSteps < MaxOpSteps
    /\ opSteps' = opSteps + 1
    /\ callbacks' = callbacks \cup { [cycle |-> request.RequestId, write |-> write] }
    /\ UNCHANGED << provider, request, context, asynchronous, response, pc,
                    pending, outcome, calls, thrown, warned, sent, checks, stale,
                    event, envContext, envPc, recordIndex, responses, envOutcome,
                    deliveries >>

\* the accessor call of a callback, applied to a response
ApplyWrite(resp, write) ==
    IF write = "physicalResourceId" THEN [resp EXCEPT !.PhysicalResourceId = LateId]
    ELSE fail(resp, "late failure")

\* a callback run while handle() is on the stack
HandlerOffStack_Anytime == pc # "idle"

\* handle() has ended : the event loop takes the next callback
HandlerOffStack == pc \in { "returned", "raised" }

\* the write landing in the response of the cycle that started the work
AfterCallback_Captured(cb) ==
    IF cb.cycle = request.RequestId
    THEN [response |-> ApplyWrite(response, cb.write), responses |-> responses]
    ELSE [response |-> response,
          responses |-> [i \in 1..Len(responses) |->
                            IF responses[i].RequestId = cb.cycle
                            THEN ApplyWrite(responses[i], cb.write)
                            ELSE responses[i]]]

\* the accessors write this.response : the response of the handler, and the
\* responses the caller keeps, after the callback
AfterCallback(cb) ==
    [response |-> ApplyWrite(response, cb.write), responses |-> responses]

\* a pending callback runs ; the response handle() returned last is the
\* object it writes
CallbackRuns(cb) ==
    /\ HandlerOffStack
    /\ cb \in callbacks
    /\ callbacks' = callbacks \ { cb }
    /\ response' = AfterCallback(cb).response
    /\ responses' = AfterCallback(cb).responses
    /\ outcome' = IF HasKey(outcome, "returned") THEN [returned |-> response']
                  ELSE outcome
    /\ UNCHANGED << provider, request, context, asynchronous, pc, opSteps,
                    pending, calls, thrown, warned, sent, checks, stale,
                    event, envContext, envPc, recordIndex, envOutcome,
                    deliveries >>

NextAsync ==
    \/ \E req \in AsyncRequests, ctx \in Contexts : HandleAsync(req, ctx)
    \/ Execute
    \/ Dispatch
    \/ \E write \in CallbackWrites : OpStartAsync(write)
    \/ OpSetPhysicalResourceId("phys-new")
    \/ OpReturn
    \/ CheckResponse
    \/ Finally
    \/ sendResponse(FALSE)
    \/ Return
    \/ \E cb \in callbacks : CallbackRuns(cb)

SpecAsync == InitAsync /\ [][NextAsync]_vars

-----------------------------------------------------------------------------
\* Vocabulary of the properties.

\* handle() has ended, by a return or by an exception
Ended == pc \in { "returned", "raised" }

\* the finally block of execute() has run
AfterFinally == pc \in { "send", "return", "returned", "raised" }

\* the request names another resource type than the handler's
Mismatched == request.ResourceType # "Custom::" \o Replace(provider, "Provider", "")

\* the properties of the request fail the properties schema of the handler
PropertiesInvalid ==
    ~(resourcePropertiesSchema(provider).required \subseteq DOMAIN request.ResourceProperties)

IdsOf(r) == << r.StackId, r.RequestId, r.LogicalResourceId >>

-----------------------------------------------------------------------------
\* C1 : handle never raises : whatever the request and whatever the selected
\* operation does (return, fail, throw of any value), no exception leaves
\* handle(), and a failure shows only as status FAILED.
C1_HandleNeverRaises ==
    /\ pc # "raised"
    /\ (pc = "returned" /\ thrown # Undefined) => outcome.returned.Status = FAILED

\* C2, as claimed : a request for another resource type ends with status
\* FAILED, whatever its kind, and no operation is invoked.
C2_MismatchAlwaysFailed ==
    (pc = "returned" /\ Mismatched) =>
        /\ outcome.returned.Status = FAILED
        /\ calls = << >>

\* C2, amended : a request for another resource type invokes none of create,
\* update, delete, handle returns, and the status returned is FAILED unless
\* the kind is Delete, for which the delete bypass makes it SUCCESS.
C2_MismatchFailedUnlessDelete ==
    (pc # "idle" /\ Mismatched) =>
        /\ calls = << >>
        /\ pc # "raised"
        /\ pc = "returned" =>
              outcome.returned.Status =
                 IF request.RequestType = "Delete" THEN SUCCESS ELSE FAILED

C2_Witness ==
    /\ pc = "returned"
    /\ Mismatched
    /\ request.RequestType = "Update"
    /\ outcome.returned.Status = FAILED
    /\ Len(sent) = 1

\* C3 : a Create request whose properties fail the schema is answered with
\* status FAILED and the physical resource id "could-not-create".
C3_InvalidCreateGetsSentinel ==
    (pc # "idle" /\ request.RequestType = "Create" /\ PropertiesInvalid) =>
        /\ pc # "raised"
        /\ pc = "returned" =>
              /\ outcome.returned.Status = FAILED
              /\ outcome.returned.PhysicalResourceId = "could-not-create"

C3_Witness ==
    /\ pc = "returned"
    /\ request.RequestType = "Create"
    /\ PropertiesInvalid
    /\ ~Mismatched
    /\ outcome.returned.PhysicalResourceId = "could-not-create"

\* C4 : a Delete request whose properties fail the schema is answered with
\* status SUCCESS, and delete() is not invoked.
C4_InvalidDeleteSucceeds ==
    (pc # "idle" /\ request.RequestType = "Delete" /\ PropertiesInvalid) =>
        /\ \A i \in 1..Len(calls) : calls[i] # "delete"
        /\ pc # "raised"
        /\ pc = "returned" => outcome.returned.Status = SUCCESS

C4_Witness ==
    /\ pc = "returned"
    /\ request.RequestType = "Delete"
    /\ PropertiesInvalid
    /\ ~Mismatched
    /\ outcome.returned.Status = SUCCESS
    /\ calls = << >>

\* C5 : the delete bypass also fires on the resource-type check : a Delete
\* request for another resource type ends with status SUCCESS, as one with
\* invalid properties does, whether or not its properties are valid.
C5_BypassOnMismatch ==
    (Ended /\ request.RequestType = "Delete" /\ Mismatched) =>
        /\ pc = "returned"
        /\ outcome.returned.Status = SUCCESS
        /\ response.Status = SUCCESS

C5_Witness ==
    /\ pc = "returned"
    /\ request.RequestType = "Delete"
    /\ Mismatched
    /\ ~PropertiesInvalid
    /\ outcome.returned.Status = SUCCESS

\* C6 : the stack id, request id and logical resource id of the response are
\* those of the request at every step of the cycle, in the response that is
\* delivered and in the response that is returned.
C6_IdentifiersCopied ==
    pc # "idle" =>
        /\ IdsOf(response) = IdsOf(request)
        /\ \A i \in 1..Len(sent) :
              /\ IdsOf(sent[i].response) = IdsOf(request)
              /\ IdsOf(sent[i].request) = IdsOf(request)
        /\ pc = "returned" => IdsOf(outcome.returned) = IdsOf(request)
        /\ request.StackId # request.RequestId
        /\ request.RequestId # request.LogicalResourceId
        /\ request.StackId # request.LogicalResourceId

C6_Witness ==
    /\ pc = "returned"
    /\ Len(sent) = 1
    /\ thrown # Undefined
    /\ HasKey(response, "Data")
    /\ request.RequestId = "req-2"
    /\ outcome.returned.RequestId = "req-2"

\* C7 : sendResponse replaces a reason of more than 200 characters by its
\* first 200 characters followed by "...", and leaves the response as it is
\* when the reason has 200 characters or fewer or is absent ; what is
\* delivered is that response.
C7_TruncationAtDelivery ==
    [][ (pc = "send" /\ pc' = "return") =>
          /\ IF HasKey(response, "Reason") /\ Len(response.Reason) > 200
             THEN /\ response'.Reason = SubSeq(response.Reason, 1, 200) \o "..."
                  /\ [response' EXCEPT !.Reason = response.Reason] = response
             ELSE response' = response
          /\ Len(sent') = 1
          /\ sent'[1].response = response' ]_vars

C7_Witness ==
    /\ pc = "return"
    /\ Len(sent) = 1
    /\ HasKey(sent[1].response, "Reason")
    /\ sent[1].response.Reason = Rep("x", 200) \o "..."

\* C8 : the reason of a delivered response has at most 200 characters.
C8_DeliveredReasonAtMost200 ==
    \A i \in 1..Len(sent) :
        HasKey(sent[i].response, "Reason") => Len(sent[i].response.Reason) <= 200

\* C9 : when both checks pass and the operation throws while the status is
\* still SUCCESS, handle ends by a return, with status FAILED and the message
\* of the exception as the reason.
C9_ThrowBecomesFailed ==
    (Ended /\ thrown # Undefined /\ thrown.status = SUCCESS) =>
        /\ pc = "returned"
        /\ outcome.returned.Status = FAILED
        /\ HasKey(outcome.returned, "Reason")
        /\ outcome.returned.Reason = thrown.value.message

\* C10 : after the finally block of a Create cycle, on every path, a status
\* FAILED comes with a non-empty physical resource id : the id the operation
\* set, or "could-not-create" when that would be empty.
C10_FailedCreateHasPhysicalId ==
    (AfterFinally /\ request.RequestType = "Create" /\ response.Status = FAILED) =>
        /\ response.PhysicalResourceId # ""
        /\ response.PhysicalResourceId \in { "could-not-create", "phys-new" }
        /\ pc = "returned" => outcome.returned.PhysicalResourceId # ""

C10_Witness ==
    /\ pc = "returned"
    /\ request.RequestType = "Create"
    /\ thrown # Undefined
    /\ thrown.status = FAILED
    /\ outcome.returned.Status = FAILED
    /\ outcome.returned.PhysicalResourceId = "could-not-create"

\* C11, as claimed : every response handed to send() has a non-empty
\* physical resource id, whatever the kind of the request and the status.
C11_DeliveredPhysicalIdNonEmpty ==
    \A i \in 1..Len(sent) :
        /\ sent[i].physicalResourceId # ""
        /\ sent[i].response.PhysicalResourceId # ""

\* C12 : a Create request of the handler's resource type, with valid
\* properties, handled by the base class and its create(), is answered with
\* status FAILED, the reason "create not implemented by ResourceProvider" and
\* the physical resource id "could-not-create" ; send() is called once, with
\* that status and physical id, with no data and no noEcho.
C12_DefaultCreateFails ==
    (pc # "idle" /\ provider = BaseClass /\ request.RequestType = "Create"
        /\ ~Mismatched /\ ~PropertiesInvalid) =>
        /\ pc # "raised"
        /\ \A i \in 1..Len(sent) :
              /\ sent[i].status = FAILED
              /\ sent[i].physicalResourceId = "could-not-create"
              /\ ~HasKey(sent[i], "data")
              /\ ~HasKey(sent[i], "noEcho")
        /\ pc \in { "return", "returned" } => Len(sent) = 1
        /\ pc = "returned" =>
              /\ outcome.returned.Status = FAILED
              /\ HasKey(outcome.returned, "Reason")
              /\ outcome.returned.Reason = "create not implemented by ResourceProvider"
              /\ outcome.returned.PhysicalResourceId = "could-not-create"
              /\ ~HasKey(outcome.returned, "Data")
              /\ ~HasKey(outcome.returned, "NoEcho")

C12_Witness ==
    /\ pc = "returned"
    /\ provider = BaseClass
    /\ request.RequestType = "Create"
    /\ request.ResourceType = "Custom::Resource"
    /\ calls = << "create" >>
    /\ Len(sent) = 1
    /\ sent[1].status = FAILED
    /\ outcome.returned.Reason = "create not implemented by ResourceProvider"

\* C13, as claimed : when the operation sets the asynchronous flag, handle
\* calls no send() and returns the response ; when the flag is not set,
\* handle calls send().
C13_DeliveryFollowsFlag ==
    Ended =>
        IF asynchronous
        THEN sent = << >> /\ pc = "returned"
        ELSE Len(sent) >= 1

\* C14, as claimed : in one cycle send() is called at most once, and exactly
\* once when the asynchronous flag is not set ; a fault of the delivery
\* brings no second call and no change to the response, which is returned as
\* it was delivered.
C14_DeliveredOnce ==
    /\ Len(sent) <= 1
    /\ (Ended /\ ~asynchronous) => Len(sent) = 1
    /\ (pc = "returned" /\ Len(sent) = 1 /\ sent[1].fault) =>
          outcome.returned = sent[1].response

\* the request the i-th record of the event carries
RequestOfRecord(i) == JSONparse(event.Records[i].Sns.Message)

\* the envelope has ended its handle()
EnvEnded == envPc \in { "returned", "raised" }

\* C15, as claimed : on an event of N well-formed records the envelope
\* returns N responses, the i-th with the ids of the request of the i-th
\* record, and send() is called once for each record, in their order.
C15_OneResponsePerRecord ==
    (EnvEnded /\ SnsSchemaValid(event)) =>
        /\ envPc = "returned"
        /\ Len(envOutcome.returned) = Len(event.Records)
        /\ \A i \in 1..Len(event.Records) :
              IdsOf(envOutcome.returned[i]) = IdsOf(RequestOfRecord(i))
        /\ deliveries = [i \in 1..Len(event.Records) |-> RequestOfRecord(i).RequestId]

\* C16 : on an event with no Records, or with a record that has no Sns or
\* whose Sns has no Message, the envelope handles no record, returns no
\* responses and ends by an exception.
C16_MalformedEventRaises ==
    (event # Undefined
        /\ (\/ ~HasKey(event, "Records")
            \/ \E i \in 1..Len(event.Records) :
                  \/ ~HasKey(event.Records[i], "Sns")
                  \/ ~HasKey(event.Records[i].Sns, "Message"))) =>
        /\ envPc = "raised"
        /\ HasKey(envOutcome, "raised")
        /\ ~HasKey(envOutcome, "returned")
        /\ envOutcome.raised.kind \in { "Error", "TypeError" }
        /\ responses = << >>
        /\ deliveries = << >>
        /\ Ended \/ pc = "idle"

C16_Witness ==
    /\ envPc = "raised"
    /\ HasKey(event, "Records")
    /\ Len(event.Records) = 2
    /\ HasKey(event.Records[1], "Sns")
    /\ HasKey(event.Records[1].Sns, "Message")
    /\ HasKey(event.Records[2], "Sns")
    /\ ~HasKey(event.Records[2].Sns, "Message")
    /\ envOutcome.raised = SnsSchemaError
    /\ pc = "returned"

\* C17, as claimed : a record whose operation fails or throws does not stop
\* the batch : its cycle ends by a return, the envelope goes on to the next
\* record, and an event of well-formed records never ends by an exception.
C17_FailureDoesNotStopBatch ==
    /\ (envPc = "call" /\ Ended /\ (thrown # Undefined \/ response.Status = FAILED)) =>
          pc = "returned"
    /\ (envPc = "raised" /\ SnsSchemaValid(event)) => FALSE

\* C18 : each cycle of a handler starts from a fresh seed : when execute()
\* is entered the response has the five keys of the seed and nothing else,
\* status SUCCESS, the ids of this request, its physical id or "", and the
\* asynchronous flag is down, whatever the previous cycle left.
C18_FreshSeed ==
    pc = "execute" =>
        /\ DOMAIN response = { "Status", "StackId", "RequestId",
                               "LogicalResourceId", "PhysicalResourceId" }
        /\ response.Status = SUCCESS
        /\ IdsOf(response) = IdsOf(request)
        /\ response.PhysicalResourceId =
              IF request.RequestType = "Create" THEN ""
              ELSE request.PhysicalResourceId
        /\ ~asynchronous
        /\ sent = << >>

C18_Witness ==
    /\ pc = "execute"
    /\ stale # Undefined
    /\ stale.Status = FAILED
    /\ HasKey(stale, "Reason")
    /\ HasKey(stale, "Data")
    /\ stale.PhysicalResourceId = "could-not-create"
    /\ request.RequestType = "Update"
    /\ request.RequestId # stale.RequestId

\* C19 : the two checks run in order and stop at the first failure : for a
\* request of another resource type only isSupportedRequest runs, neither
\* the hook nor the schema check, and the reason is "ResourceType X not
\* supported by provider Y", X the type of the request and Y the type of
\* the handler ; otherwise the hook and the schema check follow.
C19_ChecksInOrder ==
    pc \notin { "idle", "execute" } =>
        IF Mismatched
        THEN /\ checks = << "isSupportedRequest" >>
             /\ HasKey(response, "Reason")
             /\ response.Reason =
                   "ResourceType " \o request.ResourceType
                      \o " not supported by provider "
                      \o (IF provider = "ResourceProvider"
                          THEN "Custom::Resource" ELSE "Custom::Secret")
             /\ pc = "checked" => response.Status = FAILED
        ELSE checks = << "isSupportedRequest", "convertPropertyTypes", "validate" >>

C19_Witness ==
    /\ pc = "checked"
    /\ Mismatched
    /\ PropertiesInvalid
    /\ checks = << "isSupportedRequest" >>
    /\ response.Reason =
          "ResourceType Custom::Resource not supported by provider Custom::Secret"

\* C20 : when the resource type is the handler's and the properties fail
\* the schema, the validation sets status FAILED and the reason "invalid
\* resource properties: " followed by the properties as a string, and none
\* of create, update, delete is invoked, whatever the kind of the request.
C20_InvalidPropertiesFail ==
    (pc \notin { "idle", "execute" } /\ ~Mismatched /\ PropertiesInvalid) =>
        /\ calls = << >>
        /\ pc \notin { "op", "check" }
        /\ HasKey(response, "Reason")
        /\ response.Reason = "invalid resource properties: [object Object]"
        /\ pc = "checked" => response.Status = FAILED
        /\ (AfterFinally /\ request.RequestType # "Delete") =>
              response.Status = FAILED

C20_Witness ==
    /\ pc = "returned"
    /\ ~Mismatched
    /\ PropertiesInvalid
    /\ request.RequestType = "Update"
    /\ calls = << >>
    /\ outcome.returned.Status = FAILED
    /\ outcome.returned.Reason = "invalid resource properties: [object Object]"

\* both checks of execute() pass
ChecksPass == ~Mismatched /\ ~PropertiesInvalid

\* the reason of a response, or << >> when it has none
ReasonOf(resp) == IF HasKey(resp, "Reason") THEN resp.Reason ELSE << >>

\* C21 : when both checks pass, one operation is invoked, once : create for
\* Create, update for Update, delete for every other request type, a type
\* that is none of the three included ; no operation before the dispatch.
C21_OneOperationOnce ==
    (pc # "idle" /\ ChecksPass) =>
        IF pc \in { "execute", "checked" }
        THEN calls = << >>
        ELSE calls = << IF request.RequestType = "Create" THEN "create"
                        ELSE IF request.RequestType = "Update" THEN "update"
                        ELSE "delete" >>

C21_Witness ==
    /\ pc = "returned"
    /\ ChecksPass
    /\ request.RequestType = "Replace"
    /\ calls = << "delete" >>

\* C22, as claimed : after the delete bypass the response has status SUCCESS
\* and no reason, in what is delivered and in what is returned.
C22_BypassClearsReason ==
    (pc = "returned" /\ request.RequestType = "Delete" /\ ~ChecksPass) =>
        /\ outcome.returned.Status = SUCCESS
        /\ ~HasKey(outcome.returned, "Reason")
        /\ \A i \in 1..Len(sent) : ~HasKey(sent[i].response, "Reason")

C24_NoBypassAfterValidation ==
    (Ended /\ request.RequestType = "Delete" /\ ChecksPass /\ thrown # Undefined) =>
        /\ calls = << "delete" >>
        /\ pc = "returned"
        /\ outcome.returned.Status = FAILED

\* a cycle is under way
InCycle == pc \notin { "idle", "returned", "raised" }

\* C25 : the check of the response after the operation changes nothing in
\* the response, status, reason, physical id and Data included, whether the
\* response is valid against the schema or not.
C25_ResponseCheckChangesNothing ==
    [][ pc = "check" => (response' = response /\ pc' = "finally") ]_vars

C25_Witness ==
    /\ pc = "finally"
    /\ warned
    /\ thrown = Undefined
    /\ calls # << >>
    /\ response.Status = SUCCESS
    /\ ~HasKey(response, "Reason")
    /\ HasKey(response, "Data")

\* C26 : the finally block writes "could-not-create" when the request type
\* is Create, the status FAILED and the physical id empty, and leaves the
\* response as it is otherwise ; no other step of the handler, the accessor
\* calls of the operation apart, changes the physical id.
C26_SentinelOnlyForFailedCreate ==
    [][ (InCycle /\ pc # "op") =>
          IF pc = "finally" /\ request.RequestType = "Create"
                /\ response.Status = FAILED /\ response.PhysicalResourceId = ""
          THEN response' = [response EXCEPT !.PhysicalResourceId = "could-not-create"]
          ELSE /\ response'.PhysicalResourceId = response.PhysicalResourceId
               /\ pc = "finally" => response' = response ]_vars

C26_Witness ==
    /\ pc = "returned"
    /\ request.RequestType = "Update"
    /\ outcome.returned.Status = FAILED
    /\ outcome.returned.PhysicalResourceId = ""
    /\ thrown # Undefined

\* C27 : the seed has status SUCCESS and the physical id of the request, or
\* "" when the request has none ; in an Update or Delete cycle only an
\* accessor call of the operation changes the physical id, so that when the
\* operation makes none the id delivered is the id of the request.
C27_SeedCarriesPhysicalId ==
    /\ [](pc = "execute" =>
            /\ response.Status = SUCCESS
            /\ response.PhysicalResourceId =
                  IF HasKey(request, "PhysicalResourceId")
                  THEN request.PhysicalResourceId ELSE "")
    /\ []((pc # "idle" /\ request.RequestType \in { "Update", "Delete" }
             /\ opSteps = 0) =>
            /\ response.PhysicalResourceId = request.PhysicalResourceId
            /\ \A i \in 1..Len(sent) :
                  sent[i].physicalResourceId = request.PhysicalResourceId)
    /\ [][ (InCycle /\ request.RequestType \in { "Update", "Delete" }
              /\ response'.PhysicalResourceId # response.PhysicalResourceId) =>
             (pc = "op" /\ pc' = "op" /\ opSteps' = opSteps + 1) ]_vars

C27_Witness ==
    /\ pc = "returned"
    /\ request.RequestType = "Delete"
    /\ calls = << "delete" >>
    /\ opSteps = 0
    /\ Len(sent) = 1
    /\ sent[1].physicalResourceId = "phys-2"
    /\ request.PhysicalResourceId = "phys-2"

\* C28, as claimed : a response returned with status FAILED carries a
\* non-empty reason, however the status became FAILED.
C28_FailedHasReason ==
    (pc = "returned" /\ outcome.returned.Status = FAILED) =>
        /\ HasKey(outcome.returned, "Reason")
        /\ outcome.returned.Reason # ""

\* C29, as claimed : the response handle returns never carries a reason of
\* more than 200 characters that is not truncated, the asynchronous flag set
\* or not : a longer reason is 200 characters and the marker "...".
C29_ReturnedReasonTruncated ==
    (pc = "returned" /\ HasKey(outcome.returned, "Reason")
        /\ Len(outcome.returned.Reason) > 200) =>
        /\ Len(outcome.returned.Reason) = 203
        /\ SubSeq(outcome.returned.Reason, 201, 203) = "..."

\* C30 : truncation is idempotent : a second sendResponse() on a response
\* leaves the reason the first one left, so every delivery after the first
\* carries the response of the first.
C30_TruncationIdempotent ==
    /\ \A i \in 1..Len(sent) : sent[i].response = sent[1].response
    /\ Len(sent) >= 1 =>
          /\ response = sent[1].response
          /\ HasKey(response, "Reason") => Len(response.Reason) <= 203

C30_Witness ==
    /\ Len(sent) = 2
    /\ HasKey(sent[1].response, "Reason")
    /\ sent[1].response.Reason = Rep("x", 200) \o "..."
    /\ sent[2].response.Reason = Rep("x", 200) \o "..."

\* C31, as claimed : the asynchronous flag is down when a cycle starts,
\* also after a cycle in which the operation raised it, and a cycle whose
\* operation does not raise it delivers its response.
C31_FlagClearedEachCycle ==
    /\ [][ (pc \in { "returned", "raised" } /\ pc' = "execute") => ~asynchronous' ]_vars
    /\ []((Ended /\ ~asynchronous) => Len(sent) = 1)

\* C34 : send() is called after the checks, the operation and the finally
\* block, and receives the request and the context of the cycle with the
\* status, Data, physical id and NoEcho of the response handle returns.
C34_DeliveryAfterFinally ==
    \A i \in 1..Len(sent) :
        /\ pc \in { "return", "returned" }
        /\ checks # << >>
        /\ pending = Undefined
        /\ Sentinel(response) = response
        /\ sent[i].request = request
        /\ sent[i].context = context
        /\ sent[i].status = response.Status
        /\ sent[i].physicalResourceId = response.PhysicalResourceId
        /\ HasKey(sent[i], "data") = HasKey(response, "Data")
        /\ HasKey(sent[i], "data") => sent[i].data = response.Data
        /\ HasKey(sent[i], "noEcho") = HasKey(response, "NoEcho")
        /\ HasKey(sent[i], "noEcho") => sent[i].noEcho = response.NoEcho
        /\ pc = "returned" => outcome.returned = response

C34_Witness ==
    /\ pc = "returned"
    /\ Len(sent) = 1
    /\ calls = << "create" >>
    /\ HasKey(sent[1], "data")
    /\ sent[1].data = outcome.returned.Data
    /\ sent[1].physicalResourceId = "phys-new"
    /\ outcome.returned.PhysicalResourceId = "phys-new"

\* the response has the attribute
HasAttribute(resp, name) == HasKey(resp, "Data") /\ HasKey(resp.Data, name)

\* C40 : Data is created by the first setAttribute : a response on which
\* the operation made no accessor call has no Data and send() gets none ;
\* Data appears or changes only by an accessor call of the operation, which
\* writes one attribute and leaves every other one as it was ;
\* getAttribute(n) then returns the value written.
C40_AttributesLazy ==
    /\ []((pc # "idle" /\ opSteps = 0) =>
            /\ ~HasKey(response, "Data")
            /\ \A i \in 1..Len(sent) : ~HasKey(sent[i], "data")
            /\ \A n \in AttributeNames : getAttribute(response, n) = Undefined)
    /\ [][ (InCycle /\ HasKey(response', "Data")
              /\ (~HasKey(response, "Data") \/ response'.Data # response.Data)) =>
             /\ pc = "op" /\ pc' = "op" /\ opSteps' = opSteps + 1
             /\ \E n \in AttributeNames, v \in AttributeValues :
                   /\ HasAttribute(response', n)
                   /\ getAttribute(response', n) = v
                   /\ DOMAIN response'.Data =
                         (IF HasKey(response, "Data") THEN DOMAIN response.Data ELSE {})
                            \cup { n }
                   /\ \A m \in AttributeNames \ { n } :
                         /\ HasAttribute(response', m) = HasAttribute(response, m)
                         /\ HasAttribute(response, m) =>
                               getAttribute(response', m) = getAttribute(response, m) ]_vars
    /\ [][ (InCycle /\ HasKey(response, "Data")) => HasKey(response', "Data") ]_vars

C40_Witness ==
    /\ pc = "returned"
    /\ Len(sent) = 1
    /\ HasKey(sent[1], "data")
    /\ DOMAIN sent[1].data = { "Arn", "Secret" }
    /\ getAttribute(outcome.returned, "Arn") = "v1"
    /\ getAttribute(outcome.returned, "Secret") = "v2"

ShapeFailure(ev) ==
    \/ ~HasKey(ev, "Records")
    \/ \E i \in 1..Len(ev.Records) :
          \/ ~HasKey(ev.Records[i], "Sns")
          \/ ~HasKey(ev.Records[i].Sns, "Message")

\* C32 : on an event that fails the shape the envelope handles no record :
\* the step that takes the event ends the envelope by the exception, starts
\* no cycle of the provider and calls no send(), well-formed records before
\* the malformed one included.
C32_ShapeFailureHandlesNothing ==
    [][ (envPc \in { "idle", "returned", "raised" } /\ ShapeFailure(event')) =>
          /\ envPc' = "raised"
          /\ HasKey(envOutcome', "raised")
          /\ responses' = << >>
          /\ deliveries' = << >>
          /\ request' = request
          /\ pc' = pc
          /\ sent' = sent
          /\ calls' = calls ]_vars

C32_Witness ==
    /\ envPc = "raised"
    /\ HasKey(event, "Records")
    /\ Len(event.Records) = 2
    /\ event.Records[1] = RecordOf(MkRequest(1, "Create", "Custom::Secret", [Name |-> "param"]))
    /\ event.Records[2] = NoSnsRecord
    /\ deliveries = << >>
    /\ request = Undefined

\* C33, as claimed : on an event that fails the shape the response of the
\* provider is marked FAILED with a reason, also on a provider that has
\* handled no request yet, and the exception is the error of the envelope.
C33_ShapeFailureMarksProvider ==
    (envPc = "raised" /\ ShapeFailure(event)) =>
        /\ response # Undefined
        /\ response.Status = FAILED
        /\ HasKey(response, "Reason")
        /\ envOutcome.raised = SnsSchemaError

\* every leaf of the value is a primitive string, as in a request parsed
\* from JSON
RECURSIVE AsCloudFormationSends(_)
AsCloudFormationSends(p) ==
    IF p.kind = "array" THEN \A i \in DOMAIN p.v : AsCloudFormationSends(p.v[i])
    ELSE IF p.kind = "object" THEN \A k \in DOMAIN p.v : AsCloudFormationSends(p.v[k])
    ELSE p.kind = "string"

\* the conversion the claim describes : "true", "false" and the texts of
\* digits become a boolean and numbers, at every depth
RECURSIVE ClaimedConversion(_)
ClaimedConversion(p) ==
    IF p.kind = "string"
    THEN IF p.v = "true" THEN Bool(TRUE)
         ELSE IF p.v = "false" THEN Bool(FALSE)
         ELSE IF p.v # "" /\ Number(p.v) # NaN THEN Num(Number(p.v))
         ELSE p
    ELSE IF p.kind = "array"
    THEN Arr([i \in DOMAIN p.v |-> ClaimedConversion(p.v[i])])
    ELSE IF p.kind = "object"
    THEN Obj([k \in DOMAIN p.v |-> ClaimedConversion(p.v[k])])
    ELSE p

\* C38, as claimed : the heuristic conversion of properties whose leaves are
\* strings as CloudFormation sends them turns "true" and "false" into the
\* booleans and every text of digits into its number, at every depth, and
\* leaves the other strings as they are.
C38_HeuristicConversion ==
    [][ (pc = "hook" /\ Len(checks') = 2
            /\ AsCloudFormationSends(Obj(request.ResourceProperties))) =>
          request'.ResourceProperties =
             ClaimedConversion(Obj(request.ResourceProperties)).v ]_vars

\* C39 : get(X, D) returns the property X of the request when it has one
\* and D otherwise ; getOld(X, D) does so over the previous properties, and
\* returns D when the request has none ; a lookup changes neither the
\* request nor the response.
C39_Lookups ==
    /\ [](outcome # Undefined =>
            outcome.returned =
               IF outcome.op = "get"
               THEN IF outcome.name \in DOMAIN request.ResourceProperties
                    THEN request.ResourceProperties[outcome.name]
                    ELSE outcome.defaultValue
               ELSE IF "OldResourceProperties" \in DOMAIN request
                         /\ outcome.name \in DOMAIN request.OldResourceProperties
                    THEN request.OldResourceProperties[outcome.name]
                    ELSE outcome.defaultValue)
    /\ [][ pc = "lookup" => (request' = request /\ response' = response) ]_vars

C39_Witness ==
    /\ pc = "lookup"
    /\ outcome # Undefined
    /\ outcome.op = "getOld"
    /\ outcome.name = "Length"
    /\ ~HasKey(request, "OldResourceProperties")
    /\ HasKey(request.ResourceProperties, "Length")
    /\ outcome.returned = Str("dflt")

\* a step in which a pending callback ran
CallbackStep ==
    /\ callbacks' # callbacks
    /\ callbacks' \subseteq callbacks

\* the callback that ran in a CallbackStep
RanCallback == CHOOSE cb \in callbacks : cb \notin callbacks'

\* C35 : handle() does not wait for the work an operation leaves pending.
\* The delivery of a cycle happens while the callbacks the operation started
\* are still pending, with the physical id the response holds at that moment,
\* so no delivery ever carries the id the pending work sets later.
C35_DeliveryBeforePendingWork ==
    /\ [][Len(sent') > Len(sent) =>
            /\ callbacks' = callbacks
            /\ \A cb \in callbacks : cb.cycle = request.RequestId => ~HandlerOffStack
            /\ sent'[Len(sent')].physicalResourceId = response.PhysicalResourceId]_vars
    /\ [](\A i \in 1..Len(sent) : sent[i].physicalResourceId # LateId)

\* a create() that started work setting the physical id and returned : the
\* response was delivered with the empty id, and the work set the id later
C35_Witness ==
    /\ pc = "returned"
    /\ request.RequestType = "Create"
    /\ responses = << >>
    /\ Len(sent) = 1
    /\ sent[1].request = request
    /\ sent[1].physicalResourceId = ""
    /\ response.PhysicalResourceId = LateId
    /\ [cycle |-> request.RequestId, write |-> "physicalResourceId"] \notin callbacks
    /\ opSteps = 1

\* C36 : the accessors write the response of the cycle started last.  A
\* callback that runs changes the response of the handler, which carries the
\* ids of the current request, whichever cycle started the callback, and the
\* responses the earlier cycles returned never change.
C36_WritesLandInCurrentCycle ==
    /\ [][CallbackStep =>
            /\ responses' = responses
            /\ response'.RequestId = request.RequestId
            /\ RanCallback.write = "physicalResourceId" =>
                    response'.PhysicalResourceId = LateId
            /\ RanCallback.write = "fail" => response'.Status = "FAILED"]_vars
    /\ [][\A i \in 1..Len(responses) : responses'[i] = responses[i]]_vars

\* the callback cycle 1 left pending ran after cycle 2 returned : the
\* response of cycle 2 has the late id, the response cycle 1 returned has not
C36_Witness ==
    /\ pc = "returned"
    /\ request.RequestId = RequestIdOf(2)
    /\ opSteps = 0
    /\ Len(responses) = 1
    /\ responses[1].RequestId = RequestIdOf(1)
    /\ responses[1].PhysicalResourceId # LateId
    /\ response.PhysicalResourceId = LateId
    /\ response.RequestId = RequestIdOf(2)

====
